---------------------------- MODULE Spec2Model ----------------------------
(***************************************************************************)
(* A model of the DNS wire-format codec of dns-starter-rust:               *)
(*   common.rs   Name (decode, expand, compress, encode), the type and     *)
(*               class enumerations                                        *)
(*   message.rs  Question, Query (decode), Response (encode)               *)
(* Bytes are integers 0..255, a label (a Rust String) is the sequence of   *)
(* its UTF-8 bytes, an Option is a sequence of length 0 (None) or 1        *)
(* (Some), a HashMap is a function with a finite domain.  Buffer indices   *)
(* are 0-based in the source and 1-based here: value[i] is At(value, i).   *)
(***************************************************************************)
EXTENDS Integers, Sequences, FiniteSets, TLC

VARIABLES
    pc,          \* position of control
    value,       \* the byte buffer handed to try_from
    query,       \* message.rs Query under construction
    result,      \* "none" while running, then "ok" (Ok(query)) or "err" (Err)
    ref_store,   \* Query::try_from: HashMap<u16, Vec<String>>
    qdcount,     \* Query::try_from: questions still expected
    ptr,         \* Query::try_from: cursor; start of the slice Name decodes
    last_pos,    \* Name::try_from: cursor inside the slice
    labels,      \* Name::try_from: labels collected so far
    name_res,    \* Result<Name> of Name::try_from
    iters,       \* iterations of the Name loop run for the current name
    name_in,     \* a Name handed to to_vec / compress
    name_a,      \* the Name the dictionary is built from
    dict,        \* HashMap<Vec<String>, u16> handed to compress
    compressed,  \* Result<Name> of compress
    expanded,    \* Result<Name> of expand
    response,    \* the Response handed to Vec::<u8>::from
    res,         \* From<Response>: the bytes written so far
    enc_ref_store, \* From<Response>: ref_store, HashMap<Vec<String>, u16>
    enc_ptr,     \* From<Response>: ptr
    qi,          \* From<Response>: questions written
    ai,          \* From<Response>: answers written
    source,      \* Record::from_ip_v4(source), a sequence of characters
    record,      \* Result<Record> of Record::from_ip_v4
    question_res \* Result<Question> of Question::try_from

vars == <<pc, value, query, result, ref_store, qdcount, ptr, last_pos, labels,
          name_res, iters, name_in, name_a, dict, compressed, expanded,
          response, res, enc_ref_store, enc_ptr, qi, ai, source, record, question_res>>

decodeVars == <<value, query, result, ref_store, qdcount, ptr>>
encVars == <<response, res, enc_ref_store, enc_ptr, qi, ai>>
ipVars == <<source, record>>
pureVars == <<ipVars, question_res>>
nameVars == <<name_in, name_a, dict, compressed, expanded, encVars, pureVars>>

(***************************************************************************)
(* Bounds of the model.                                                    *)
(***************************************************************************)
\* labels per generated name
MaxLabels == 2
\* question fragments per generated message body
MaxQuestions == 3
\* names (of questions, then of answers) per generated Response
MaxNames == 3
\* period-separated components per generated address text
MaxComponents == 5
\* the Name-loop iteration counter saturates here, above what any generated
\* name needs (one iteration per label and one for its end)
IterCap == MaxLabels + 3

(***************************************************************************)
(* Bytes and integers.                                                     *)
(***************************************************************************)
Byte == 0..255

\* value[i] of the source (0-based)
At(s, i) == s[i + 1]

\* &value[from..]
SliceFrom(s, from) == SubSeq(s, from + 1, Len(s))

\* u16::from_be_bytes([hi, lo])
U16FromBe(hi, lo) == hi * 256 + lo

\* u16::to_be_bytes(v)
U16ToBe(v) == << (v \div 256) % 256, v % 256 >>

\* u32::to_be_bytes(v)
U32ToBe(v) ==
    << (v \div 16777216) % 256, (v \div 65536) % 256, (v \div 256) % 256, v % 256 >>

\* wrapping u16 arithmetic
U16(v) == v % 65536

RECURSIVE Flatten(_)
Flatten(ss) == IF ss = <<>> THEN <<>> ELSE Head(ss) \o Flatten(Tail(ss))

\* s[from..] of a Vec (0-based from)
Suffix(s, from) == SubSeq(s, from + 1, Len(s))

\* s[..to] of a Vec (0-based, exclusive to)
Prefix(s, to) == SubSeq(s, 1, to)

(***************************************************************************)
(* String::from_utf8: the well-formed UTF-8 byte sequences.                *)
(***************************************************************************)
IsCont(b) == b \in 128..191

RECURSIVE Utf8Valid(_)
Utf8Valid(s) ==
    IF \A i \in 1..Len(s) : s[i] < 128 THEN TRUE
    ELSE LET b == s[1]
             n == Len(s)
         IN  IF b < 128 THEN Utf8Valid(Tail(s))
             ELSE IF b \in 194..223
                  THEN n >= 2 /\ IsCont(s[2]) /\ Utf8Valid(SubSeq(s, 3, n))
             ELSE IF b \in 224..239
                  THEN /\ n >= 3
                       /\ IsCont(s[2]) /\ IsCont(s[3])
                       /\ (b = 224 => s[2] >= 160)
                       /\ (b = 237 => s[2] <= 159)
                       /\ Utf8Valid(SubSeq(s, 4, n))
             ELSE IF b \in 240..244
                  THEN /\ n >= 4
                       /\ IsCont(s[2]) /\ IsCont(s[3]) /\ IsCont(s[4])
                       /\ (b = 240 => s[2] >= 144)
                       /\ (b = 244 => s[2] <= 143)
                       /\ Utf8Valid(SubSeq(s, 5, n))
             ELSE FALSE

(***************************************************************************)
(* common.rs: Result, Option, Name.                                        *)
(***************************************************************************)
None == <<>>
Some(x) == <<x>>

Name(ls, p) == [labels |-> ls, pointer |-> p]

\* impl From<Vec<String>> for Name
NameFrom(ls) == Name(ls, None)

NoName == Name(<<>>, None)

Ok(n) == [kind |-> "ok", name |-> n, err |-> ""]
Err(e) == [kind |-> "err", name |-> NoName, err |-> e]
\* no call has returned yet
Pending == [kind |-> "pending", name |-> NoName, err |-> ""]

RECURSIVE LabelsLen(_)
LabelsLen(ls) == IF ls = <<>> THEN 0 ELSE Len(Head(ls)) + 1 + LabelsLen(Tail(ls))

\* Name::len
NameLen(n) == LabelsLen(n.labels) + (IF n.pointer = None THEN 1 ELSE 2)

\* the mask Name::try_from applies to the first byte of a pointer
PointerHighBits(upper_byte) == upper_byte % 4

\* the match guard of the label arm of Name::try_from
\* a label arm that stops one short of 63
IsLabelLengthBelow63(label_length) == label_length < 63

IsLabelLength(label_length) == label_length < 64

\* one iteration of the while loop of Name::try_from on the slice v
NameIter(v, lp, ls) ==
    LET length == Len(v)
        marker == lp
        first  == At(v, marker)
    IN  IF first = 0
        THEN [kind |-> "ok", name |-> NameFrom(ls), err |-> "", last_pos |-> lp, labels |-> ls]
        ELSE IF first >= 192
        THEN IF marker + 1 < length
             THEN [kind |-> "ok",
                   name |-> Name(ls, Some(U16FromBe(PointerHighBits(first), At(v, marker + 1)))),
                   err |-> "", last_pos |-> lp, labels |-> ls]
             ELSE [kind |-> "next", name |-> NoName, err |-> "", last_pos |-> lp, labels |-> ls]
        ELSE IF IsLabelLength(first)
        THEN LET start == marker + 1
                 end   == start + first
             IN  IF end >= length
                 THEN [kind |-> "err", name |-> NoName, err |-> "truncated label",
                       last_pos |-> lp, labels |-> ls]
                 ELSE IF ~Utf8Valid(SubSeq(v, start + 1, end))
                 THEN [kind |-> "err", name |-> NoName, err |-> "utf8",
                       last_pos |-> lp, labels |-> ls]
                 ELSE [kind |-> "next", name |-> NoName, err |-> "",
                       last_pos |-> end, labels |-> Append(ls, SubSeq(v, start + 1, end))]
        ELSE [kind |-> "err", name |-> NoName, err |-> "illegal label length",
              last_pos |-> lp, labels |-> ls]

\* the indices of v that one iteration of the loop reads by indexing or
\* slicing: the first byte, and the label when the test of end has passed
\* (value.get(marker + 1) is a checked read: it is made only inside v)
NameIterReads(v, lp) ==
    LET first == At(v, lp)
        start == lp + 1
        end   == start + first
    IN  { lp }
        \cup (IF first >= 192 /\ lp + 1 < Len(v) THEN { lp + 1 } ELSE {})
        \cup (IF first # 0 /\ first < 192 /\ IsLabelLength(first) /\ ~(end >= Len(v))
              THEN start..(end - 1) ELSE {})

\* an expand that checks the pointer and leaves the name as it is
NameExpandUnresolved(n, references) ==
    IF n.pointer # None /\ n.pointer[1] \notin DOMAIN references
    THEN Err("compression pointing to non-registered name")
    ELSE Ok(n)

\* Name::expand
NameExpand(n, references) ==
    IF n.pointer # None
    THEN IF n.pointer[1] \in DOMAIN references
         THEN Ok(Name(n.labels \o references[n.pointer[1]], None))
         ELSE Err("compression pointing to non-registered name")
    ELSE Ok(Name(n.labels, None))

\* a scan from the shortest suffix to the longest: the last k in k..len-1
\* whose suffix is a key of references, or len
RECURSIVE ShortestRegistered(_, _, _)
ShortestRegistered(ls, references, k) ==
    IF k >= Len(ls) THEN Len(ls)
    ELSE LET later == ShortestRegistered(ls, references, k + 1)
         IN  IF later < Len(ls) THEN later
             ELSE IF Suffix(ls, k) \in DOMAIN references THEN k
             ELSE Len(ls)

\* the first k in 0..len-1 whose suffix is a key of references, or len
RECURSIVE FirstRegistered(_, _, _)
FirstRegistered(ls, references, k) ==
    IF k >= Len(ls) THEN Len(ls)
    ELSE IF Suffix(ls, k) \in DOMAIN references THEN k
    ELSE FirstRegistered(ls, references, k + 1)

\* Name::compress
NameCompress(n, references) ==
    IF n.pointer # None
    THEN Err("Can compress only uncompressed names")
    ELSE LET k == FirstRegistered(n.labels, references, 0)
         IN  IF k < Len(n.labels)
             THEN Ok(Name(Prefix(n.labels, k), Some(references[Suffix(n.labels, k)])))
             ELSE Ok(n)

\* the bytes of one label in Name::to_vec: s.len() as u8, then the bytes
LabelToVec(s) == <<Len(s) % 256>> \o s

\* Name::to_vec
NameToVec(n) ==
    Flatten([i \in 1..Len(n.labels) |-> LabelToVec(n.labels[i])])
      \o (IF n.pointer # None
          THEN U16ToBe(49152 + (n.pointer[1] % 16384))
          ELSE <<0>>)

(***************************************************************************)
(* common.rs: the type and class enumerations.                             *)
(***************************************************************************)
RRTypeNames ==
    << "A", "NS", "MD", "MF", "CNAME", "SOA", "MB", "MG", "MR", "NULL", "WKS",
       "PTR", "HINFO", "MINFO", "MX", "TXT" >>

RRClassNames == << "IN", "CS", "CH", "HS" >>

Invalid == "invalid"

\* impl TryFrom<u16> for RRType (Invalid for the bail! arm)
RRTypeTryFrom(v) == IF v \in 1..16 THEN RRTypeNames[v] ELSE Invalid

\* impl From<RRType> for u16
RRTypeToU16(t) == CHOOSE i \in 1..16 : RRTypeNames[i] = t

\* impl TryFrom<u16> for QType
QTypeTryFrom(v) ==
    CASE v = 252 -> "AXFR"
      [] v = 253 -> "MAILB"
      [] v = 254 -> "MAILA"
      [] v = 255 -> "ANY"
      [] OTHER   -> RRTypeTryFrom(v)

\* impl From<QType> for u16
QTypeToU16(t) ==
    CASE t = "AXFR"  -> 252
      [] t = "MAILB" -> 253
      [] t = "MAILA" -> 254
      [] t = "ANY"   -> 255
      [] OTHER       -> RRTypeToU16(t)

\* impl TryFrom<u16> for RRClass
RRClassTryFrom(v) == IF v \in 1..4 THEN RRClassNames[v] ELSE Invalid

\* impl From<RRClass> for u16
RRClassToU16(c) == CHOOSE i \in 1..4 : RRClassNames[i] = c

\* impl TryFrom<u16> for QClass
QClassTryFrom(v) == IF v = 255 THEN "ANY" ELSE RRClassTryFrom(v)

\* impl From<QClass> for u16
QClassToU16(c) == IF c = "ANY" THEN 255 ELSE RRClassToU16(c)

\* impl From<u8> for OpCode
OpCodeFrom(v) ==
    CASE v = 0 -> [tag |-> "Query", value |-> 0]
      [] v = 1 -> [tag |-> "IQuery", value |-> 1]
      [] v = 2 -> [tag |-> "Status", value |-> 2]
      [] OTHER -> [tag |-> "Reserved", value |-> v]

\* impl From<OpCode> for u8
OpCodeToU8(oc) ==
    CASE oc.tag = "Query"  -> 0
      [] oc.tag = "IQuery" -> 1
      [] oc.tag = "Status" -> 2
      [] OTHER             -> oc.value

(***************************************************************************)
(* message.rs: Question.                                                   *)
(***************************************************************************)
Question(n, t, c) == [qname |-> n, qtype |-> t, qclass |-> c]

\* Question::len
QuestionLen(q) == NameLen(q.qname) + 4

\* Question::to_vec
QuestionToVec(q) ==
    NameToVec(q.qname) \o U16ToBe(QTypeToU16(q.qtype)) \o U16ToBe(QClassToU16(q.qclass))

\* a Question::try_from that wants a byte after the class
QuestionAfterNameShort(v, nr) ==
    IF nr.kind # "ok" THEN [kind |-> "err", question |-> Question(NoName, "", ""), err |-> nr.err]
    ELSE LET qname == nr.name
             meta == NameLen(qname)
             query_end == meta + 4
         IN  IF query_end >= Len(v)
             THEN [kind |-> "err", question |-> Question(NoName, "", ""),
                   err |-> "truncated question"]
             ELSE LET qtype == QTypeTryFrom(U16FromBe(At(v, meta), At(v, meta + 1)))
                      qclass == QClassTryFrom(U16FromBe(At(v, meta + 2), At(v, meta + 3)))
                  IN  IF qtype = Invalid
                      THEN [kind |-> "err", question |-> Question(NoName, "", ""),
                            err |-> "invalid QType"]
                      ELSE IF qclass = Invalid
                      THEN [kind |-> "err", question |-> Question(NoName, "", ""),
                            err |-> "invalid QClass"]
                      ELSE [kind |-> "ok", question |-> Question(qname, qtype, qclass),
                            err |-> ""]

\* Question::try_from on the slice v, from the point where Name::try_from
\* has returned nr
QuestionAfterName(v, nr) ==
    IF nr.kind # "ok" THEN [kind |-> "err", question |-> Question(NoName, "", ""), err |-> nr.err]
    ELSE LET qname == nr.name
             meta == NameLen(qname)
             query_end == meta + 4
         IN  IF query_end > Len(v)
             THEN [kind |-> "err", question |-> Question(NoName, "", ""),
                   err |-> "truncated question"]
             ELSE LET qtype == QTypeTryFrom(U16FromBe(At(v, meta), At(v, meta + 1)))
                      qclass == QClassTryFrom(U16FromBe(At(v, meta + 2), At(v, meta + 3)))
                  IN  IF qtype = Invalid
                      THEN [kind |-> "err", question |-> Question(NoName, "", ""),
                            err |-> "invalid QType"]
                      ELSE IF qclass = Invalid
                      THEN [kind |-> "err", question |-> Question(NoName, "", ""),
                            err |-> "invalid QClass"]
                      ELSE [kind |-> "ok", question |-> Question(qname, qtype, qclass),
                            err |-> ""]

(***************************************************************************)
(* message.rs: Query.                                                      *)
(***************************************************************************)
\* a Query::new that starts from NoError
QueryNewNoError ==
    [response_code |-> "NoError", id |-> 0, opcode |-> OpCodeFrom(0),
     truncation |-> FALSE, recursion_desired |-> FALSE, questions |-> <<>>]

\* Query::new
QueryNew ==
    [response_code |-> "FormatError", id |-> 0, opcode |-> OpCodeFrom(0),
     truncation |-> FALSE, recursion_desired |-> FALSE, questions |-> <<>>]

\* a final response code that ignores the opcode
FinalResponseCodeAnyOpcode(opcode) == "NoError"

\* the response code of a Query all of whose questions were decoded
FinalResponseCode(opcode) ==
    IF opcode.tag = "Query" THEN "NoError" ELSE "NotImplemented"

\* the header fields Query::try_from reads from bytes 0..2
QueryHeaderFields(v) ==
    LET q0 == [QueryNew EXCEPT !.id = U16FromBe(At(v, 0), At(v, 1))]
    IN  IF Len(v) > 2
        THEN [q0 EXCEPT !.opcode = OpCodeFrom((At(v, 2) \div 8) % 16),
                        !.truncation = ((At(v, 2) \div 2) % 2 = 1),
                        !.recursion_desired = (At(v, 2) % 2 = 1)]
        ELSE q0

\* the entries the question loop registers for one question at cursor p:
\* every suffix that starts at one of the n_labels own labels, and the
\* whole name at p
RECURSIVE RegisterSuffixes(_, _, _, _, _)
RegisterSuffixes(store, expanded_labels, n_labels, start, ref_ptr) ==
    IF start >= n_labels THEN store
    ELSE LET partial == Suffix(expanded_labels, start)
         IN  RegisterSuffixes((ref_ptr :> partial) @@ store, expanded_labels, n_labels,
                              start + 1, U16(ref_ptr + U16(Len(partial[1]) + 1)))

QueryRegister(store, expanded_labels, n_labels, p) ==
    (U16(p) :> expanded_labels)
        @@ RegisterSuffixes(store, expanded_labels, n_labels, 0, U16(p))

(***************************************************************************)
(* message.rs: Response.                                                   *)
(***************************************************************************)
\* the offset at which the encoder starts to write names
HeaderLen == 12

\* an inner loop that inserts without looking for an entry
RECURSIVE EncRegisterOverwrite(_, _, _, _)
EncRegisterOverwrite(store, ls, start, ref_ptr) ==
    IF start >= Len(ls) THEN store
    ELSE EncRegisterOverwrite((Suffix(ls, start) :> ref_ptr) @@ store, ls, start + 1,
                              U16(ref_ptr + U16(Len(ls[start + 1]) + 1)))

\* the inner loop of the encoder: every suffix of labels that is not yet a
\* key is registered at the offset its first label is written at
RECURSIVE EncRegisterFrom(_, _, _, _)
EncRegisterFrom(store, ls, start, ref_ptr) ==
    IF start >= Len(ls) THEN store
    ELSE LET partial == Suffix(ls, start)
             next == IF partial \in DOMAIN store THEN store
                     ELSE (partial :> ref_ptr) @@ store
         IN  EncRegisterFrom(next, ls, start + 1, U16(ref_ptr + U16(Len(partial[1]) + 1)))

EncRegister(store, ls, p) == EncRegisterFrom(store, ls, 0, p)

\* a | b on u8
RECURSIVE BitOr(_, _)
BitOr(a, b) ==
    IF a = 0 THEN b
    ELSE IF b = 0 THEN a
    ELSE (IF a % 2 = 1 \/ b % 2 = 1 THEN 1 ELSE 0) + 2 * BitOr(a \div 2, b \div 2)

\* enum ResponseCode, in the order of its discriminants from 0
ResponseCodeNames ==
    << "NoError", "FormatError", "ServerFailure", "NameError", "NotImplemented",
       "Refused", "Reserved" >>

\* response_code as u8
ResponseCodeToU8(rc) == (CHOOSE i \in 1..7 : ResponseCodeNames[i] = rc) - 1

Record(t, c, d) == [rrtype |-> t, rrclass |-> c, data |-> d]

\* the decimal digits, "0" first
Digits == << "0", "1", "2", "3", "4", "5", "6", "7", "8", "9" >>

IsDigit(c) == \E i \in 1..10 : Digits[i] = c

DigitValue(c) == (CHOOSE i \in 1..10 : Digits[i] = c) - 1

\* source.split('.')
RECURSIVE Split(_)
Split(s) ==
    IF \A i \in 1..Len(s) : s[i] # "."
    THEN << s >>
    ELSE LET i == CHOOSE j \in 1..Len(s) : s[j] = "." /\ \A k \in 1..(j - 1) : s[k] # "."
         IN  << SubSeq(s, 1, i - 1) >> \o Split(SubSeq(s, i + 1, Len(s)))

\* the digit loop of u8::from_str: each digit is checked, then the value
\* multiplied by 10 and added with overflow checks
RECURSIVE ParseDigits(_, _, _)
ParseDigits(digits, i, acc) ==
    IF i > Len(digits) THEN [kind |-> "ok", val |-> acc, err |-> ""]
    ELSE IF ~IsDigit(digits[i]) THEN [kind |-> "err", val |-> 0, err |-> "InvalidDigit"]
    ELSE IF acc * 10 + DigitValue(digits[i]) > 255
    THEN [kind |-> "err", val |-> 0, err |-> "PosOverflow"]
    ELSE ParseDigits(digits, i + 1, acc * 10 + DigitValue(digits[i]))

\* c.parse::<u8>(): an empty text, a lone sign and a text with a character
\* that is no digit fail; one leading "+" is skipped
ParseU8(c) ==
    IF c = <<>> THEN [kind |-> "err", val |-> 0, err |-> "Empty"]
    ELSE IF c = << "+" >> \/ c = << "-" >> THEN [kind |-> "err", val |-> 0, err |-> "InvalidDigit"]
    ELSE ParseDigits(IF c[1] = "+" THEN Tail(c) ELSE c, 1, 0)

NoRecord == Record("", "", <<>>)

\* Record::from_ip_v4
RecordFromIpV4(src) ==
    LET parts == Split(src)
        components == [i \in 1..Len(parts) |-> ParseU8(parts[i])]
        failed == { i \in 1..Len(parts) : components[i].kind = "err" }
    IN  IF failed # {}
        THEN [kind |-> "err", record |-> NoRecord,
              err |-> components[CHOOSE i \in failed : \A j \in failed : i <= j].err]
        ELSE [kind |-> "ok",
              record |-> Record("A", "IN", [i \in 1..Len(parts) |-> components[i].val]),
              err |-> ""]

\* Answer::new
Answer(n, r, ttl) == [name |-> n, record |-> r, ttl |-> ttl]

\* Answer::to_vec
AnswerToVec(a) ==
    NameToVec(a.name)
      \o U16ToBe(RRTypeToU16(a.record.rrtype))
      \o U16ToBe(RRClassToU16(a.record.rrclass))
      \o U32ToBe(a.ttl)
      \o U16ToBe(U16(Len(a.record.data)))
      \o a.record.data

\* a header whose byte 2 lacks the response bit
ResponseHeaderNoResponseBit(r) ==
    LET qdc == U16ToBe(U16(Len(r.questions)))
        anc == U16ToBe(U16(Len(r.answers)))
    IN  << (r.id \div 256) % 256, r.id % 256,
           BitOr(BitOr(BitOr((OpCodeToU8(r.opcode) * 8) % 256,
                             IF r.authoritative_answer THEN 4 ELSE 0),
                       IF r.truncation THEN 2 ELSE 0),
                 IF r.recursion_desired THEN 1 ELSE 0),
           BitOr(IF r.recursion_available THEN 128 ELSE 0, ResponseCodeToU8(r.response_code)),
           qdc[1], qdc[2], anc[1], anc[2], 0, 0, 0, 0 >>

\* the 12 bytes the encoder starts with
ResponseHeader(r) ==
    LET oc == OpCodeToU8(r.opcode)
        aa == IF r.authoritative_answer THEN 4 ELSE 0
        tc == IF r.truncation THEN 2 ELSE 0
        rd == IF r.recursion_desired THEN 1 ELSE 0
        rc == ResponseCodeToU8(r.response_code)
        ra == IF r.recursion_available THEN 128 ELSE 0
        qdc == U16ToBe(U16(Len(r.questions)))
        anc == U16ToBe(U16(Len(r.answers)))
    IN  << (r.id \div 256) % 256, r.id % 256,
           BitOr(BitOr(BitOr(BitOr(128, (oc * 8) % 256), aa), tc), rd), BitOr(ra, rc),
           qdc[1], qdc[2], anc[1], anc[2], 0, 0, 0, 0 >>

\* ResponseBuilder::default().build()
ResponseDefault ==
    [id |-> 0, opcode |-> OpCodeFrom(0), truncation |-> FALSE,
     authoritative_answer |-> FALSE, recursion_desired |-> FALSE,
     recursion_available |-> FALSE, response_code |-> "FormatError",
     questions |-> <<>>, answers |-> <<>>]

(***************************************************************************)
(* The buffers Query::try_from is run on.  A message is a 12-byte header   *)
(* followed by question fragments; a fragment is the bytes of some labels, *)
(* an end of name (a zero byte, a pointer, or something corrupt) and the   *)
(* type and class bytes (or less).                                         *)
(***************************************************************************)
\* "a" and "bc"
LabelSet == { <<97>>, <<98, 99>> }

RECURSIVE SeqsUpTo(_, _)
SeqsUpTo(S, n) ==
    IF n = 0 THEN { <<>> }
    ELSE LET shorter == SeqsUpTo(S, n - 1)
         IN  shorter \cup { Append(s, x) : s \in { t \in shorter : Len(t) = n - 1 }, x \in S }

\* the labels of bc, a.bc, bc.a.bc, ...
RECURSIVE Chain(_)
Chain(n) ==
    IF n = 0 THEN <<>>
    ELSE << (IF n % 2 = 1 THEN <<98, 99>> ELSE <<97>>) >> \o Chain(n - 1)

ChainNames == { Chain(n) : n \in 0..MaxLabels }

WireLabels(ls) == Flatten([i \in 1..Len(ls) |-> LabelToVec(ls[i])])

\* a well-formed end of name: the root label, or a pointer to 12, 14 or 22
GoodEnds == { <<0>>, <<192, 12>>, <<192, 14>>, <<192, 22>> }

\* other ends of a name: a pointer between two labels (13), the pointer
\* 0xc4 0x0c whose 14-bit offset is 1036, a lone pointer byte, an illegal
\* length, a label running past the end, a label that is not UTF-8, a label
\* reaching exactly the end
BadEnds ==
    { <<192, 13>>, <<196, 12>>, <<192>>, <<64>>, <<5, 97>>, <<1, 255, 0>>, <<1, 97>> }

\* A IN
TypeClassGood == <<0, 1, 0, 1>>

\* other types and classes: ANY ANY, AXFR HS, type 0, type 17, class 5,
\* type 257, and three bytes only
TypeClassEnds ==
    { <<0, 255, 0, 255>>, <<0, 252, 0, 4>>, <<0, 0, 0, 1>>, <<0, 17, 0, 1>>,
      <<0, 1, 0, 5>>, <<1, 1, 0, 1>>, <<0, 1, 0>> }

GoodFragments ==
    { WireLabels(ls) \o e \o TypeClassGood : ls \in ChainNames, e \in GoodEnds }

SimpleFragments ==
    { WireLabels(ls) \o <<0>> \o TypeClassGood : ls \in ChainNames }

LastFragments ==
    { WireLabels(ls) \o e \o TypeClassGood :
        ls \in { <<>>, << <<97>> >> }, e \in BadEnds }
    \cup
    { WireLabels(ls) \o e \o tc :
        ls \in { <<>>, << <<97>> >> }, e \in { <<0>>, <<192, 12>> }, tc \in TypeClassEnds }
    \cup
    \* the buffer ends in or right after the name
    { WireLabels(ls) \o e :
        ls \in { <<>>, << <<97>> >> }, e \in { <<>>, <<0>>, <<192, 12>>, <<192>>, <<255>> } }

\* bytes 0..11: id, flags, byte 3, question count, three ignored counts
Header(id, b2, b3, qd) == id \o <<b2, b3>> \o U16ToBe(qd) \o <<0, 0, 0, 0, 0, 0>>

Ids == { <<253, 240>>, <<1, 2>> }

\* RD; opcode 1 with TC; opcode 5; QR set
FlagBytes == { 1, 10, 40, 129 }

\* zero; an RCODE; a Z bit
Byte3s == { 0, 5, 16 }

\* every header over no question and over one
HeaderMessages ==
    { Header(id, b2, b3, qd) \o b :
        id \in Ids, b2 \in FlagBytes, b3 \in Byte3s, qd \in { 0, 1, 2, 256 },
        b \in { <<>>, <<1, 97, 0, 0, 1, 0, 1>> } }

\* the questions after the second: bc, a pointer to 12, bc and a pointer
\* to 14, a pointer to 22
TailFragments ==
    { e \o TypeClassGood :
        e \in { <<2, 98, 99, 0>>, <<192, 12>>, <<2, 98, 99, 192, 14>>, <<192, 22>> } }

\* as many well-formed questions as the header counts
GoodMessages ==
    { Header(<<253, 240>>, 1, 0, Len(fs) + Len(ts)) \o Flatten(fs) \o Flatten(ts) :
        fs \in SeqsUpTo(GoodFragments, 2),
        ts \in SeqsUpTo(TailFragments, MaxQuestions - 2) }

\* at most one well-formed question, then a fragment that may be corrupt
BadMessages ==
    { Header(<<253, 240>>, 1, 0, qd) \o Flatten(fs) \o l :
        qd \in 1..3, fs \in SeqsUpTo(GoodFragments, 1), l \in LastFragments }

\* a count that differs from the questions present
CountMessages ==
    { Header(<<1, 2>>, b2, 0, qd) \o Flatten(fs) :
        b2 \in { 1, 10 }, qd \in 0..(MaxQuestions + 1),
        fs \in SeqsUpTo(SimpleFragments, 2) }

\* the cut headers: every prefix of a few headers
CutHeaders ==
    { Prefix(Header(<<253, 240>>, b2, b3, 1), n) :
        b2 \in { 1, 10, 129 }, b3 \in { 0, 16 }, n \in 0..11 }

\* a label of 63 bytes
Label63 == [i \in 1..63 |-> 97]

\* a message of two questions whose second name, "a" and a pointer, points
\* at the label "bc" of the first, which starts at offset 12 + 16 * 64
LongMessage ==
    Header(<<253, 240>>, 1, 0, 2)
      \o WireLabels([i \in 1..16 |-> Label63] \o << <<98, 99>> >>) \o <<0>> \o TypeClassGood
      \o WireLabels(<< <<97>> >>) \o U16ToBe(49152 + 12 + 16 * 64) \o TypeClassGood

Messages ==
    HeaderMessages \cup GoodMessages \cup BadMessages \cup CountMessages
        \cup { LongMessage }

Inputs == Messages \cup CutHeaders

(***************************************************************************)
(* Query::try_from as a state machine.                                     *)
(***************************************************************************)
NoRecordResult == [kind |-> "pending", record |-> NoRecord, err |-> ""]

NoQuestionResult == [kind |-> "pending", question |-> Question(NoName, "", ""), err |-> ""]

NoEncVars ==
    /\ source = <<>>
    /\ record = NoRecordResult
    /\ question_res = NoQuestionResult
    /\ response = ResponseDefault
    /\ res = <<>>
    /\ enc_ref_store = <<>>
    /\ enc_ptr = 0
    /\ qi = 0
    /\ ai = 0

NoNameVars ==
    /\ name_in = NoName
    /\ name_a = NoName
    /\ dict = <<>>
    /\ compressed = Pending
    /\ expanded = Pending
    /\ NoEncVars

Init ==
    /\ pc = "start"
    /\ value \in Inputs
    /\ query = QueryNew
    /\ result = "none"
    /\ ref_store = <<>>
    /\ qdcount = 0
    /\ ptr = 0
    /\ last_pos = 0
    /\ labels = <<>>
    /\ name_res = Pending
    /\ iters = 0
    /\ NoNameVars

\* lines 113-142: the id, the flags, the Z and length checks, the count
QueryHeader ==
    /\ pc = "start"
    /\ IF Len(value) < 2
       THEN /\ result' = "err"
            /\ pc' = "done"
            /\ UNCHANGED <<query, qdcount, ptr>>
       ELSE IF Len(value) > 2 /\ At(value, 2) \div 128 = 1
       THEN /\ result' = "err"
            /\ pc' = "done"
            /\ query' = [QueryNew EXCEPT !.id = U16FromBe(At(value, 0), At(value, 1))]
            /\ UNCHANGED <<qdcount, ptr>>
       ELSE /\ query' = QueryHeaderFields(value)
            /\ IF (Len(value) > 3 /\ At(value, 3) \div 16 # 0) \/ Len(value) < 12
               THEN /\ result' = "ok"
                    /\ pc' = "done"
                    /\ UNCHANGED <<qdcount, ptr>>
               ELSE /\ result' = "none"
                    /\ pc' = "qloop"
                    /\ qdcount' = U16FromBe(At(value, 4), At(value, 5))
                    /\ ptr' = 12
    /\ UNCHANGED <<value, ref_store, last_pos, labels, name_res, iters>>
    /\ UNCHANGED nameVars

\* lines 143-149: the loop test, the truncation test, and the entry into
\* Question::try_from and Name::try_from on &value[ptr..]
QuestionBegin ==
    /\ pc = "qloop"
    /\ qdcount > 0
    /\ IF ptr >= Len(value)
       THEN /\ result' = "ok"
            /\ pc' = "done"
       ELSE /\ result' = "none"
            /\ pc' = "name"
    /\ last_pos' = 0
    /\ labels' = <<>>
    /\ iters' = 0
    /\ name_res' = Pending
    /\ UNCHANGED <<value, query, ref_store, qdcount, ptr>>
    /\ UNCHANGED nameVars

\* one pass through the while loop of Name::try_from (lines 239-264)
NameStep ==
    /\ pc = "name"
    /\ last_pos < Len(SliceFrom(value, ptr))
    /\ LET r == NameIter(SliceFrom(value, ptr), last_pos, labels)
       IN  /\ last_pos' = r.last_pos
           /\ labels' = r.labels
           /\ IF r.kind = "next"
              THEN /\ pc' = "name"
                   /\ name_res' = Pending
              ELSE /\ pc' = "name_done"
                   /\ name_res' = [kind |-> r.kind, name |-> r.name, err |-> r.err]
    /\ iters' = IF iters < IterCap THEN iters + 1 ELSE iters
    /\ UNCHANGED decodeVars
    /\ UNCHANGED nameVars

\* the loop of Name::try_from ends without a return (line 266)
NameExhausted ==
    /\ pc = "name"
    /\ last_pos >= Len(SliceFrom(value, ptr))
    /\ pc' = "name_done"
    /\ name_res' = Err("no null label terminator")
    /\ UNCHANGED <<last_pos, labels, iters>>
    /\ UNCHANGED decodeVars
    /\ UNCHANGED nameVars

\* the rest of Question::try_from (lines 52-62) and of the loop body
\* (lines 149-180)
QuestionFinish ==
    /\ pc = "name_done"
    /\ LET qr == QuestionAfterName(SliceFrom(value, ptr), name_res)
           question == qr.question
           n_labels == Len(question.qname.labels)
           delta == QuestionLen(question)
           er == NameExpand(question.qname, ref_store)
           expanded_question == [question EXCEPT !.qname = er.name]
       IN  IF qr.kind # "ok"
           THEN /\ result' = "ok"
                /\ pc' = "done"
                /\ UNCHANGED <<query, ref_store, qdcount, ptr>>
           ELSE IF question.qname.pointer # None /\ er.kind # "ok"
           THEN /\ result' = "err"
                /\ pc' = "done"
                /\ UNCHANGED <<query, ref_store, qdcount, ptr>>
           ELSE /\ ref_store' = QueryRegister(ref_store, er.name.labels, n_labels, ptr)
                /\ ptr' = ptr + delta
                /\ qdcount' = qdcount - 1
                /\ query' = [query EXCEPT !.questions = Append(@, expanded_question)]
                /\ result' = "none"
                /\ pc' = "qloop"
    /\ UNCHANGED <<value, last_pos, labels, name_res, iters>>
    /\ UNCHANGED nameVars

\* lines 183-188: every expected question was decoded
QueryFinish ==
    /\ pc = "qloop"
    /\ qdcount = 0
    /\ query' = [query EXCEPT !.response_code = FinalResponseCode(query.opcode)]
    /\ result' = "ok"
    /\ pc' = "done"
    /\ UNCHANGED <<value, ref_store, qdcount, ptr, last_pos, labels, name_res, iters>>
    /\ UNCHANGED nameVars

Next == QueryHeader \/ QuestionBegin \/ NameStep \/ QuestionFinish \/ QueryFinish

Spec == Init /\ [][Next]_vars

(***************************************************************************)
(* Name::to_vec, Name::try_from, Name::compress and Name::expand on their  *)
(* own.  A run either encodes name_in and decodes the bytes, or registers  *)
(* the suffixes of name_a as the encoder does for a name written at        *)
(* offset 12, compresses name_in against them and expands the result       *)
(* against the same table read from offset to suffix.                      *)
(***************************************************************************)
\* a label of 64 bytes
Label64 == [i \in 1..64 |-> 97]

\* "a", "bc", the empty string, and labels of 63 and of 64 bytes
NameLabelSet == { <<97>>, <<98, 99>>, <<>>, Label63, Label64 }

PointerSamples == { 0, 12, 1023, 1024, 16383 }

NameInputs ==
    { Name(ls, p) : ls \in SeqsUpTo(NameLabelSet, MaxLabels),
                    p \in { None } \cup { Some(x) : x \in PointerSamples } }

\* the names that are compressed: short labels, with a pointer or without
CompressInputs ==
    { Name(ls, p) : ls \in SeqsUpTo(LabelSet \cup { <<>> }, MaxLabels),
                    p \in { None, Some(12) } }

DictNames == { NameFrom(ls) : ls \in SeqsUpTo(LabelSet, MaxLabels) }

\* a HashMap<Vec<String>, u16> read as the HashMap<u16, Vec<String>> with
\* the same pairs
Inverse(d) ==
    [o \in { d[k] : k \in DOMAIN d } |-> CHOOSE k \in DOMAIN d : d[k] = o]

InitName ==
    /\ \/ /\ pc = "to_vec"
          /\ name_in \in NameInputs
          /\ name_a = NoName
       \/ /\ pc = "register"
          /\ name_in \in CompressInputs
          /\ name_a \in DictNames
    /\ dict = <<>>
    /\ compressed = Pending
    /\ expanded = Pending
    /\ value = <<>>
    /\ query = QueryNew
    /\ result = "none"
    /\ ref_store = <<>>
    /\ qdcount = 0
    /\ ptr = 0
    /\ last_pos = 0
    /\ labels = <<>>
    /\ name_res = Pending
    /\ iters = 0
    /\ NoEncVars

\* name_in.to_vec(), and the entry into Name::try_from on the bytes
NameEncode ==
    /\ pc = "to_vec"
    /\ value' = NameToVec(name_in)
    /\ pc' = "name"
    /\ UNCHANGED <<query, result, ref_store, qdcount, ptr, last_pos, labels, name_res, iters>>
    /\ UNCHANGED nameVars

\* the suffixes of name_a registered for a name written at offset 12
BuildDict ==
    /\ pc = "register"
    /\ dict' = EncRegister(<<>>, name_a.labels, HeaderLen)
    /\ pc' = "compress"
    /\ UNCHANGED <<name_in, name_a, compressed, expanded, encVars, pureVars>>
    /\ UNCHANGED decodeVars
    /\ UNCHANGED <<last_pos, labels, name_res, iters>>

\* name_in.compress(&dict)
Compress ==
    /\ pc = "compress"
    /\ compressed' = NameCompress(name_in, dict)
    /\ pc' = "expand"
    /\ UNCHANGED <<name_in, name_a, dict, expanded, encVars, pureVars>>
    /\ UNCHANGED decodeVars
    /\ UNCHANGED <<last_pos, labels, name_res, iters>>

\* compressed.expand(&references), references being dict inverted
Expand ==
    /\ pc = "expand"
    /\ compressed.kind = "ok"
    /\ expanded' = NameExpand(compressed.name, Inverse(dict))
    /\ pc' = "expanded"
    /\ UNCHANGED <<name_in, name_a, dict, compressed, encVars, pureVars>>
    /\ UNCHANGED decodeVars
    /\ UNCHANGED <<last_pos, labels, name_res, iters>>

NextName == NameEncode \/ NameStep \/ BuildDict \/ Compress \/ Expand

SpecName == InitName /\ [][NextName]_vars

(***************************************************************************)
(* Name::try_from on raw buffers: the bodies of the messages above, cut    *)
(* at every length.                                                        *)
(***************************************************************************)
RawBuffers ==
    UNION { { Prefix(f, n) : n \in 0..Len(f) } : f \in GoodFragments \cup LastFragments }

InitRaw ==
    /\ pc = "name"
    /\ value \in RawBuffers
    /\ query = QueryNew
    /\ result = "none"
    /\ ref_store = <<>>
    /\ qdcount = 0
    /\ ptr = 0
    /\ last_pos = 0
    /\ labels = <<>>
    /\ name_res = Pending
    /\ iters = 0
    /\ NoNameVars

NextRaw == NameStep \/ NameExhausted

SpecRaw == InitRaw /\ [][NextRaw]_vars

\* the call runs on: a step that is possible is taken
SpecRawFair == SpecRaw /\ WF_vars(NextRaw)

(***************************************************************************)
(* Question::try_from on raw buffers: those of Name::try_from, a name      *)
(* followed by every type and by every class around the defined values,    *)
(* and questions followed by the start of another.                         *)
(***************************************************************************)
\* the type and class numbers tried: 0..260 and the largest u16
MetaSamples == (0..260) \cup { 65535 }

QuestionBuffers ==
    RawBuffers
    \cup { n \o U16ToBe(t) \o <<0, 1>> : n \in { <<0>>, <<1, 97, 192, 12>> }, t \in MetaSamples }
    \cup { n \o <<0, 1>> \o U16ToBe(c) : n \in { <<0>>, <<1, 97, 192, 12>> }, c \in MetaSamples }
    \cup { f \o <<1, 97>> : f \in GoodFragments }

InitQuestion ==
    /\ pc = "question"
    /\ value \in QuestionBuffers
    /\ query = QueryNew
    /\ result = "none"
    /\ ref_store = <<>>
    /\ qdcount = 0
    /\ ptr = 0
    /\ last_pos = 0
    /\ labels = <<>>
    /\ name_res = Pending
    /\ iters = 0
    /\ NoNameVars

\* lines 50 and 63-65: an empty slice is no question
QuestionEntry ==
    /\ pc = "question"
    /\ IF value = <<>>
       THEN /\ question_res' = [kind |-> "err", question |-> Question(NoName, "", ""),
                                err |-> "Empty question"]
            /\ pc' = "question_done"
       ELSE /\ question_res' = NoQuestionResult
            /\ pc' = "name"
    /\ UNCHANGED <<last_pos, labels, name_res, iters, ipVars>>
    /\ UNCHANGED decodeVars
    /\ UNCHANGED <<name_in, name_a, dict, compressed, expanded, encVars>>

\* lines 51-62: Name::try_from has returned
QuestionDecode ==
    /\ pc = "name_done"
    /\ question_res' = QuestionAfterName(value, name_res)
    /\ pc' = "question_done"
    /\ UNCHANGED <<last_pos, labels, name_res, iters, ipVars>>
    /\ UNCHANGED decodeVars
    /\ UNCHANGED <<name_in, name_a, dict, compressed, expanded, encVars>>

NextQuestion == QuestionEntry \/ NameStep \/ QuestionDecode

SpecQuestion == InitQuestion /\ [][NextQuestion]_vars

(***************************************************************************)
(* From<Response> for Vec<u8> as a state machine: the header, then one     *)
(* step per question and one per answer.                                   *)
(***************************************************************************)
\* the labels of the names a Response is built from: the root, bc, a.bc,
\* a, bc.bc and bc.a.bc
EncLabelSeqs ==
    { <<>>, << <<98, 99>> >>, << <<97>>, <<98, 99>> >>, << <<97>> >>,
      << <<98, 99>>, <<98, 99>> >>, << <<98, 99>>, <<97>>, <<98, 99>> >> }

EncNames == { NameFrom(ls) : ls \in EncLabelSeqs }

\* a name that carries a pointer
PointerName == Name(<< <<97>> >>, Some(12))

\* Record::from_ip_v4("8.8.8.8")
FakeRecord == Record("A", "IN", <<8, 8, 8, 8>>)

\* the Responses of at most MaxNames names, the first nq of them questions
BodyResponses ==
    UNION { { [ResponseDefault EXCEPT
                 !.id = 65008, !.recursion_desired = TRUE, !.response_code = "NoError",
                 !.questions = [i \in 1..nq |-> Question(ns[i], "A", "IN")],
                 !.answers = [i \in 1..(Len(ns) - nq) |->
                                 Answer(ns[nq + i], FakeRecord, 60)]] :
                nq \in 0..Len(ns) } :
            ns \in SeqsUpTo(EncNames, MaxNames) }

\* a name that carries a pointer, as a question or as an answer, after at
\* most one name that carries none
PointerResponses ==
    { [ResponseDefault EXCEPT
         !.id = 65008, !.response_code = "NoError",
         !.questions = [i \in 1..Len(ns) |-> Question(ns[i], "A", "IN")] \o qs,
         !.answers = ans] :
        ns \in SeqsUpTo(EncNames, 1),
        qs \in { <<>>, << Question(PointerName, "A", "IN") >> },
        ans \in { <<>>, << Answer(PointerName, FakeRecord, 60) >> } }

\* every header over one question and one answer
HeaderResponses ==
    { [id |-> id, opcode |-> OpCodeFrom(oc), truncation |-> tc,
       authoritative_answer |-> aa, recursion_desired |-> rd,
       recursion_available |-> ra, response_code |-> rc,
       questions |-> << Question(NameFrom(Chain(2)), "A", "IN") >>,
       answers |-> << Answer(NameFrom(Chain(2)), FakeRecord, 60) >>] :
        id \in { 65008, 258 }, oc \in { 0, 1, 2, 5, 15 }, tc \in BOOLEAN,
        aa \in BOOLEAN, rd \in BOOLEAN, ra \in BOOLEAN,
        rc \in { "NoError", "FormatError", "NotImplemented", "Reserved" } }

InitEncode ==
    /\ pc = "enc_header"
    /\ response \in BodyResponses \cup PointerResponses \cup HeaderResponses
    /\ source = <<>>
    /\ record = NoRecordResult
    /\ question_res = NoQuestionResult
    /\ res = <<>>
    /\ enc_ref_store = <<>>
    /\ enc_ptr = 0
    /\ qi = 0
    /\ ai = 0
    /\ name_in = NoName
    /\ name_a = NoName
    /\ dict = <<>>
    /\ compressed = Pending
    /\ expanded = Pending
    /\ value = <<>>
    /\ query = QueryNew
    /\ result = "none"
    /\ ref_store = <<>>
    /\ qdcount = 0
    /\ ptr = 0
    /\ last_pos = 0
    /\ labels = <<>>
    /\ name_res = Pending
    /\ iters = 0

encOthers == <<value, query, result, ref_store, qdcount, ptr, last_pos, labels,
               name_res, iters, name_in, name_a, dict, compressed, expanded, pureVars>>

\* lines 251-270: the header, the empty dictionary, the cursor
EncodeHeader ==
    /\ pc = "enc_header"
    /\ res' = ResponseHeader(response)
    /\ enc_ref_store' = <<>>
    /\ enc_ptr' = HeaderLen
    /\ pc' = "encode"
    /\ UNCHANGED <<response, qi, ai>>
    /\ UNCHANGED encOthers

\* lines 271-285: one question
EncodeQuestion ==
    /\ pc = "encode"
    /\ qi < Len(response.questions)
    /\ LET question == response.questions[qi + 1]
           cr == NameCompress(question.qname, enc_ref_store)
           bytes == QuestionToVec([question EXCEPT !.qname = cr.name])
       IN  IF cr.kind # "ok"
           THEN /\ pc' = "panic"
                /\ UNCHANGED <<res, enc_ref_store, enc_ptr, qi>>
           ELSE /\ enc_ref_store' = EncRegister(enc_ref_store, question.qname.labels, enc_ptr)
                /\ enc_ptr' = U16(enc_ptr + U16(Len(bytes)))
                /\ res' = res \o bytes
                /\ qi' = qi + 1
                /\ pc' = "encode"
    /\ UNCHANGED <<response, ai>>
    /\ UNCHANGED encOthers

\* lines 287-301: one answer
EncodeAnswer ==
    /\ pc = "encode"
    /\ qi = Len(response.questions)
    /\ ai < Len(response.answers)
    /\ LET answer == response.answers[ai + 1]
           cr == NameCompress(answer.name, enc_ref_store)
           bytes == AnswerToVec([answer EXCEPT !.name = cr.name])
       IN  IF cr.kind # "ok"
           THEN /\ pc' = "panic"
                /\ UNCHANGED <<res, enc_ref_store, enc_ptr, ai>>
           ELSE /\ enc_ref_store' = EncRegister(enc_ref_store, answer.name.labels, enc_ptr)
                /\ enc_ptr' = U16(enc_ptr + U16(Len(bytes)))
                /\ res' = res \o bytes
                /\ ai' = ai + 1
                /\ pc' = "encode"
    /\ UNCHANGED <<response, qi>>
    /\ UNCHANGED encOthers

\* line 303: res is returned
EncodeDone ==
    /\ pc = "encode"
    /\ qi = Len(response.questions)
    /\ ai = Len(response.answers)
    /\ pc' = "enc_done"
    /\ UNCHANGED encVars
    /\ UNCHANGED encOthers

NextEncode == EncodeHeader \/ EncodeQuestion \/ EncodeAnswer \/ EncodeDone

SpecEncode == InitEncode /\ [][NextEncode]_vars

(***************************************************************************)
(* The encoder on a Response longer than 16383 bytes, next to the short    *)
(* ones.                                                                   *)
(***************************************************************************)
\* questions of the long Response before its last two
LongQuestions == 84

\* three labels of 63 bytes, all of the i-th printable character
LongName(i) == NameFrom([k \in 1..3 |-> [j \in 1..63 |-> 32 + i]])

\* LongQuestions questions of 197 bytes each with names that share no
\* suffix, then the name a twice: the first a is written, and registered,
\* at offset 12 + 84 * 197 = 16560
LargeResponse ==
    [ResponseDefault EXCEPT
       !.id = 65008, !.response_code = "NoError",
       !.questions = [i \in 1..(LongQuestions + 2) |->
                         IF i <= LongQuestions
                         THEN Question(LongName(i), "A", "IN")
                         ELSE Question(NameFrom(<< <<97>> >>), "A", "IN")],
       !.answers = << Answer(NameFrom(<< <<97>> >>), FakeRecord, 60) >>]

InitEncodeLarge ==
    /\ pc = "enc_header"
    /\ response \in BodyResponses \cup { LargeResponse }
    /\ source = <<>>
    /\ record = NoRecordResult
    /\ question_res = NoQuestionResult
    /\ res = <<>>
    /\ enc_ref_store = <<>>
    /\ enc_ptr = 0
    /\ qi = 0
    /\ ai = 0
    /\ name_in = NoName
    /\ name_a = NoName
    /\ dict = <<>>
    /\ compressed = Pending
    /\ expanded = Pending
    /\ value = <<>>
    /\ query = QueryNew
    /\ result = "none"
    /\ ref_store = <<>>
    /\ qdcount = 0
    /\ ptr = 0
    /\ last_pos = 0
    /\ labels = <<>>
    /\ name_res = Pending
    /\ iters = 0

SpecEncodeLarge == InitEncodeLarge /\ [][NextEncode]_vars

(***************************************************************************)
(* Server::serve: a datagram of at most BufSize bytes is decoded, the      *)
(* Query is answered by process_query and the Response is encoded.         *)
(***************************************************************************)
\* the receive buffer of serve
BufSize == 512

InitServer ==
    /\ Init
    /\ Len(value) <= BufSize

\* Server::process_query on the Query that Query::try_from returned
ProcessQuery ==
    /\ pc = "done"
    /\ result = "ok"
    /\ response' =
          [ResponseDefault EXCEPT
             !.id = query.id,
             !.opcode = query.opcode,
             !.recursion_desired = query.recursion_desired,
             !.questions = query.questions,
             !.answers = [i \in 1..Len(query.questions) |->
                             Answer(query.questions[i].qname, FakeRecord, 60)],
             !.response_code = query.response_code]
    /\ pc' = "enc_header"
    /\ UNCHANGED <<res, enc_ref_store, enc_ptr, qi, ai>>
    /\ UNCHANGED encOthers

NextServer == Next \/ ProcessQuery \/ NextEncode

SpecServer == InitServer /\ [][NextServer]_vars

(***************************************************************************)
(* Record::from_ip_v4 on its own.                                          *)
(***************************************************************************)
\* components: 1, 255, 256, the empty text, a letter
ComponentTexts == { << "1" >>, << "2", "5", "5" >>, << "2", "5", "6" >>, <<>>, << "x" >> }

\* components for the second place of a four-part text: signs, leading
\* zeros, zero, four digits, a digit after the overflow
OtherComponentTexts ==
    { << "+", "7" >>, << "-", "1" >>, << "+" >>, << "0", "0", "7" >>, << "0" >>,
      << "1", "0", "0", "0" >>, << "2", "5", "6", "x" >>, << "+", "2", "5", "5" >>,
      << "1", "+" >> }

RECURSIVE Join(_)
Join(cs) ==
    IF Len(cs) = 0 THEN <<>>
    ELSE IF Len(cs) = 1 THEN cs[1]
    ELSE cs[1] \o << "." >> \o Join(Tail(cs))

IpTexts ==
    { Join(cs) : cs \in SeqsUpTo(ComponentTexts, MaxComponents) }
    \cup { Join(<< << "8" >>, c, << "8" >>, << "8" >> >>) : c \in OtherComponentTexts }

InitIp ==
    /\ pc = "from_ip_v4"
    /\ source \in IpTexts
    /\ record = NoRecordResult
    /\ question_res = NoQuestionResult
    /\ response = ResponseDefault
    /\ res = <<>>
    /\ enc_ref_store = <<>>
    /\ enc_ptr = 0
    /\ qi = 0
    /\ ai = 0
    /\ name_in = NoName
    /\ name_a = NoName
    /\ dict = <<>>
    /\ compressed = Pending
    /\ expanded = Pending
    /\ value = <<>>
    /\ query = QueryNew
    /\ result = "none"
    /\ ref_store = <<>>
    /\ qdcount = 0
    /\ ptr = 0
    /\ last_pos = 0
    /\ labels = <<>>
    /\ name_res = Pending
    /\ iters = 0

\* Record::from_ip_v4(source)
FromIpV4 ==
    /\ pc = "from_ip_v4"
    /\ record' = RecordFromIpV4(source)
    /\ pc' = "record"
    /\ UNCHANGED <<source, question_res, encVars>>
    /\ UNCHANGED <<value, query, result, ref_store, qdcount, ptr, last_pos, labels,
                   name_res, iters, name_in, name_a, dict, compressed, expanded>>

NextIp == FromIpV4

SpecIp == InitIp /\ [][NextIp]_vars

(***************************************************************************)
(* The wire format read directly from the buffer (RFC 1035 4.1.2, 4.1.4):  *)
(* what the bytes at an offset say, independently of the decoder's state.  *)
(***************************************************************************)
WireBad == [ok |-> FALSE, labels |-> <<>>, pointer |-> None, next |-> 0]

\* the labels written at offset p, the pointer that ends them (its 14-bit
\* offset) or None for the root label, and the offset after the name
RECURSIVE WireNameAt(_, _)
WireNameAt(buf, p) ==
    IF p >= Len(buf) THEN WireBad
    ELSE LET b == At(buf, p)
         IN  IF b = 0 THEN [ok |-> TRUE, labels |-> <<>>, pointer |-> None, next |-> p + 1]
             ELSE IF b >= 192
             THEN IF p + 1 >= Len(buf) THEN WireBad
                  ELSE [ok |-> TRUE, labels |-> <<>>,
                        pointer |-> Some((b - 192) * 256 + At(buf, p + 1)), next |-> p + 2]
             ELSE IF b >= 64 \/ p + 1 + b > Len(buf) THEN WireBad
             ELSE LET text == SubSeq(buf, p + 2, p + 1 + b)
                      rest == WireNameAt(buf, p + 1 + b)
                  IN  IF ~Utf8Valid(text) \/ ~rest.ok THEN WireBad
                      ELSE [rest EXCEPT !.labels = <<text>> \o rest.labels]

WireTypeOk(t) == t \in (1..16) \cup (252..255)
WireClassOk(c) == c \in (1..4) \cup {255}

\* the question written at offset p: its name as WireNameAt reads it, its
\* type and class numbers, and the offset after it
WireQuestionAt(buf, p) ==
    LET n == WireNameAt(buf, p)
    IN  IF ~n.ok \/ n.next + 4 > Len(buf)
        THEN [ok |-> FALSE, at |-> p, name |-> WireBad, qtype |-> 0, qclass |-> 0, next |-> 0]
        ELSE LET t == U16FromBe(At(buf, n.next), At(buf, n.next + 1))
                 c == U16FromBe(At(buf, n.next + 2), At(buf, n.next + 3))
             IN  [ok |-> WireTypeOk(t) /\ WireClassOk(c), at |-> p, name |-> n,
                  qtype |-> t, qclass |-> c, next |-> n.next + 4]

\* the well-formed questions written one after another from offset p, at
\* most n of them
RECURSIVE WireQuestions(_, _, _)
WireQuestions(buf, p, n) ==
    IF n = 0 THEN <<>>
    ELSE LET q == WireQuestionAt(buf, p)
         IN  IF ~q.ok THEN <<>> ELSE <<q>> \o WireQuestions(buf, q.next, n - 1)

\* the offsets at which the labels of a question written at q.at start
RECURSIVE LabelStarts(_, _)
LabelStarts(ls, p) ==
    IF ls = <<>> THEN {} ELSE {p} \cup LabelStarts(Tail(ls), p + Len(Head(ls)) + 1)

\* the name that starts at offset p, pointers followed while they point
\* backwards (<<"bad">> marks a name that cannot be read)
RECURSIVE WireFullName(_, _)
WireFullName(buf, p) ==
    LET n == WireNameAt(buf, p)
    IN  IF ~n.ok THEN << <<"bad">> >>
        ELSE IF n.pointer = None THEN n.labels
        ELSE IF n.pointer[1] >= n.next - 2 THEN << <<"bad">> >>
        ELSE n.labels \o WireFullName(buf, n.pointer[1])

\* what the header bytes say
WireCount(buf) == U16FromBe(At(buf, 4), At(buf, 5))
HeaderFailure(buf) == Len(buf) < 12 \/ At(buf, 3) >= 16

(***************************************************************************)
(* C1.  Query::try_from returns Err only for a buffer of fewer than 2      *)
(* bytes or one whose byte 2 has the bit 0x80 set; for every other buffer  *)
(* it returns a Query whose id is bytes 0-1 big-endian, and no failure in  *)
(* decoding or expanding a question's name reaches the caller.             *)
(***************************************************************************)
HardFailureInput(buf) == Len(buf) < 2 \/ (Len(buf) > 2 /\ At(buf, 2) >= 128)

C1_OnlyHeaderErrorsAreHard ==
    /\ result = "err" => HardFailureInput(value)
    /\ result = "ok" => query.id = U16FromBe(At(value, 0), At(value, 1))

(***************************************************************************)
(* C2.  Every pass through the Name loop returns or moves the cursor       *)
(* forward by at least one byte, and every pass through the question loop  *)
(* returns or moves the cursor forward and takes one off the count.        *)
(***************************************************************************)
C2_EveryIterationAdvances ==
    [][ /\ (pc = "name" /\ pc' = "name") => last_pos' > last_pos
        /\ (pc = "name_done" /\ pc' # "done") => (ptr' > ptr /\ qdcount' = qdcount - 1)
      ]_vars

(***************************************************************************)
(* C3.  A Query returned after a soft failure (Z bits set, fewer than 12   *)
(* bytes, fewer well-formed questions in the buffer than the header        *)
(* counts) has the response code FormatError, the id, opcode, TC and RD of *)
(* the header bytes present, and exactly the questions written before the  *)
(* failure, in wire order (none after a header failure).                   *)
(***************************************************************************)
\* the decoded question q is the question w of the wire: its type and class,
\* its own labels, and nothing more when its name ends with the root label
MatchesWire(q, w) ==
    /\ QTypeToU16(q.qtype) = w.qtype
    /\ QClassToU16(q.qclass) = w.qclass
    /\ q.qname.pointer = None
    /\ Len(q.qname.labels) >= Len(w.name.labels)
    /\ Prefix(q.qname.labels, Len(w.name.labels)) = w.name.labels
    /\ w.name.pointer = None => q.qname.labels = w.name.labels

SoftFailureInput(buf) ==
    /\ ~HardFailureInput(buf)
    /\ \/ HeaderFailure(buf)
       \/ Len(WireQuestions(buf, 12, WireCount(buf))) < WireCount(buf)

C3_SoftFailureQuery ==
    (result = "ok" /\ SoftFailureInput(value)) =>
        /\ query.response_code = "FormatError"
        /\ query.id = U16FromBe(At(value, 0), At(value, 1))
        /\ IF Len(value) > 2
           THEN /\ OpCodeToU8(query.opcode) = (At(value, 2) \div 8) % 16
                /\ query.truncation = (At(value, 2) % 4 >= 2)
                /\ query.recursion_desired = (At(value, 2) % 2 = 1)
           ELSE /\ OpCodeToU8(query.opcode) = 0
                /\ ~query.truncation
                /\ ~query.recursion_desired
        /\ IF HeaderFailure(value)
           THEN query.questions = <<>>
           ELSE LET wire == WireQuestions(value, 12, WireCount(value))
                IN  /\ Len(query.questions) = Len(wire)
                    /\ \A i \in 1..Len(wire) : MatchesWire(query.questions[i], wire[i])

\* a soft failure after two questions were decoded
C3_Witness ==
    /\ result = "ok"
    /\ SoftFailureInput(value)
    /\ ~HeaderFailure(value)
    /\ Len(query.questions) = 2

(***************************************************************************)
(* C4.  The response code of a returned Query is NoError only if the       *)
(* header passed the Z and length checks, as many questions were decoded   *)
(* as bytes 4-5 count, and the opcode is 0; when all counted questions     *)
(* were decoded and the opcode is not 0 it is NotImplemented.              *)
(***************************************************************************)
C4_ResponseCode ==
    result = "ok" =>
        /\ query.response_code = "NoError" =>
              /\ ~HeaderFailure(value)
              /\ Len(query.questions) = WireCount(value)
              /\ (At(value, 2) \div 8) % 16 = 0
        /\ ( /\ ~HeaderFailure(value)
             /\ Len(query.questions) = WireCount(value)
             /\ (At(value, 2) \div 8) % 16 # 0 ) =>
              query.response_code = "NotImplemented"

\* two questions decoded under opcode 1
C4_Witness ==
    /\ result = "ok"
    /\ query.response_code = "NotImplemented"
    /\ Len(query.questions) = 2

\* one question decoded under opcode 0
C4_WitnessNoError ==
    /\ result = "ok"
    /\ query.response_code = "NoError"
    /\ Len(query.questions) >= 1

(***************************************************************************)
(* C5.  When the name of a later question ends in a pointer to the offset  *)
(* at which a label of an earlier question's name starts, the question is  *)
(* decoded, and its name has no pointer and is its own labels followed by  *)
(* the earlier name read from that offset onward, pointers followed.       *)
(***************************************************************************)
\* the starts of the labels of the questions written before offset p
EarlierLabelStarts(buf, p) ==
    LET wire == WireQuestions(buf, 12, WireCount(buf))
    IN  UNION { LabelStarts(wire[i].name.labels, wire[i].at) :
                  i \in { j \in 1..Len(wire) : wire[j].at < p } }

PointsIntoEarlierQuestion(buf, p) ==
    LET w == WireQuestionAt(buf, p)
    IN  /\ w.ok
        /\ w.name.pointer # None
        /\ w.name.pointer[1] \in EarlierLabelStarts(buf, p)

C5_PointerIntoEarlierQuestion ==
    [][ (pc = "name_done" /\ PointsIntoEarlierQuestion(value, ptr)) =>
          LET w == WireQuestionAt(value, ptr)
          IN  /\ pc' = "qloop"
              /\ Len(query'.questions) = Len(query.questions) + 1
              /\ query'.questions[Len(query'.questions)].qname
                    = Name(w.name.labels \o WireFullName(value, w.name.pointer[1]), None)
      ]_vars

\* the same, for the messages in which every pointer is below 1024
C5_BelowTenBits ==
    [][ ( /\ pc = "name_done"
          /\ PointsIntoEarlierQuestion(value, ptr)
          /\ WireQuestionAt(value, ptr).name.pointer[1] < 1024 ) =>
          LET w == WireQuestionAt(value, ptr)
          IN  /\ pc' = "qloop"
              /\ Len(query'.questions) = Len(query.questions) + 1
              /\ query'.questions[Len(query'.questions)].qname
                    = Name(w.name.labels \o WireFullName(value, w.name.pointer[1]), None)
      ]_vars

\* a third question that points into a second one that was itself compressed
C5_WitnessChain ==
    /\ pc = "name_done"
    /\ Len(query.questions) = 2
    /\ PointsIntoEarlierQuestion(value, ptr)
    /\ LET w == WireQuestions(value, 12, 2)
       IN  /\ w[2].name.pointer # None
           /\ WireQuestionAt(value, ptr).name.pointer[1] = w[2].at

(***************************************************************************)
(* C6.  A pointer is resolved only against entries registered by the       *)
(* questions decoded before the current one, and a question whose name     *)
(* ends in a pointer whose 14-bit offset is at or after the pointer's own  *)
(* position is never added to the Query.                                   *)
(***************************************************************************)
\* the position of the pointer that ends the name just decoded
PointerPosition == ptr + LabelsLen(name_res.name.labels)

\* the 14 bits the two bytes at offset p carry
WireTarget(buf, p) == (At(buf, p) % 64) * 256 + At(buf, p + 1)

ForwardReference ==
    /\ pc = "name_done"
    /\ name_res.kind = "ok"
    /\ name_res.name.pointer # None
    /\ WireTarget(value, PointerPosition) >= PointerPosition

C6_OnlyEarlierRegistrations ==
    [][ /\ \A k \in DOMAIN ref_store : k < ptr
        /\ ForwardReference => query'.questions = query.questions
      ]_vars

\* the first half alone
C6_RegisteredBelowCursor == \A k \in DOMAIN ref_store : k < ptr

(***************************************************************************)
(* C7.  Decoding the bytes Name::to_vec produces for a Name without a      *)
(* pointer, whose labels are printable ASCII strings of at most 63 bytes,  *)
(* succeeds and returns the Name.                                          *)
(***************************************************************************)
RoundTripDone == pc = "name_done" /\ value = NameToVec(name_in)

LabelsAtMost63(n) == \A i \in 1..Len(n.labels) : Len(n.labels[i]) <= 63

LabelsFrom1To63(n) == \A i \in 1..Len(n.labels) : Len(n.labels[i]) \in 1..63

\* as claimed: every label of at most 63 bytes
C7_RoundTripAtMost63 ==
    (RoundTripDone /\ name_in.pointer = None /\ LabelsAtMost63(name_in)) =>
        name_res = Ok(name_in)

\* as amended: every label of 1 to 63 bytes
C7_RoundTripNonEmptyLabels ==
    (RoundTripDone /\ name_in.pointer = None /\ LabelsFrom1To63(name_in)) =>
        name_res = Ok(name_in)

\* a name of two labels, one of them of 63 bytes, has made the round trip
C7_Witness ==
    /\ RoundTripDone
    /\ name_in.pointer = None
    /\ LabelsFrom1To63(name_in)
    /\ Len(name_in.labels) = 2
    /\ \E i \in 1..2 : Len(name_in.labels[i]) = 63
    /\ name_res = Ok(name_in)

(***************************************************************************)
(* C8.  Name::try_from, at a byte b0 >= 0xc0 followed by b1, returns the   *)
(* labels read so far and the pointer ((b0 & 0x3f) << 8) | b1; so the      *)
(* bytes of to_vec of a name with a pointer decode to the same pointer,    *)
(* for every offset below 2^14.                                            *)
(***************************************************************************)
C8_PointerKeepsFourteenBits ==
    /\ ( /\ pc = "name_done"
         /\ At(SliceFrom(value, ptr), last_pos) >= 192
         /\ last_pos + 1 < Len(SliceFrom(value, ptr)) ) =>
           name_res = Ok(Name(labels,
                              Some(WireTarget(SliceFrom(value, ptr), last_pos))))
    /\ ( /\ RoundTripDone
         /\ name_in.pointer # None
         /\ LabelsFrom1To63(name_in) ) =>
           (name_res.kind = "ok" /\ name_res.name.pointer = name_in.pointer)

(***************************************************************************)
(* C10.  With the dictionary built by registering every suffix of name A   *)
(* at the offsets it occupies, compressing a name B without a pointer that *)
(* shares a suffix with A returns the labels of B before the longest       *)
(* shared suffix and a pointer to the offset of that suffix inside A, and  *)
(* expanding that against the inverse table returns a name without a       *)
(* pointer with the labels of B; a name with no suffix in the dictionary   *)
(* is returned unchanged.                                                  *)
(***************************************************************************)
\* the k for which b[k..] is a non-empty tail of a
SharedAt(b, a) ==
    { k \in 0..(Len(b) - 1) : Len(b) - k <= Len(a) /\ Suffix(b, k) = Suffix(a, Len(a) - (Len(b) - k)) }

Min(S) == CHOOSE x \in S : \A y \in S : x <= y

\* the offset of the tail of n labels of a, a being written at offset p
OffsetOfTail(a, n, p) == p + LabelsLen(Prefix(a, Len(a) - n))

C10_CompressExpandRoundTrip ==
    pc = "expanded" =>
        LET b == name_in.labels
            a == name_a.labels
        IN  IF SharedAt(b, a) # {}
            THEN LET k == Min(SharedAt(b, a))
                 IN  /\ compressed =
                          Ok(Name(Prefix(b, k), Some(OffsetOfTail(a, Len(b) - k, HeaderLen))))
                     /\ expanded = Ok(NameFrom(b))
            ELSE compressed = Ok(name_in)

\* B keeps a label of its own and points into the middle of A
C10_Witness ==
    /\ pc = "expanded"
    /\ SharedAt(name_in.labels, name_a.labels) # {}
    /\ Min(SharedAt(name_in.labels, name_a.labels)) = 1
    /\ Len(name_a.labels) = 2
    /\ Len(name_in.labels) = 2
    /\ compressed.name.pointer = Some(HeaderLen + Len(name_a.labels[1]) + 1)
    /\ expanded = Ok(NameFrom(name_in.labels))

\* B has no suffix in the dictionary
C10_WitnessUnchanged ==
    /\ pc = "expanded"
    /\ name_in.labels # <<>>
    /\ SharedAt(name_in.labels, name_a.labels) = {}
    /\ compressed = Ok(name_in)

(***************************************************************************)
(* C9.  The encoder keeps one dictionary for the questions and then the    *)
(* answers: its keys are the label suffixes of the names written so far,   *)
(* no step changes the offset of a key, and each name is written as its    *)
(* labels before its longest registered suffix followed by a pointer to    *)
(* the offset registered for that suffix (in full when it has none).  An   *)
(* answer named as the first question is written as C0 0C.                 *)
(***************************************************************************)
\* the names written so far
WrittenNames ==
    [i \in 1..qi |-> response.questions[i].qname]
        \o [i \in 1..ai |-> response.answers[i].name]

\* the name the next step writes
NameToWrite ==
    IF qi < Len(response.questions) THEN response.questions[qi + 1].qname
    ELSE response.answers[ai + 1].name

NonEmptySuffixes(ls) == { Suffix(ls, k) : k \in 0..(Len(ls) - 1) }

RegisteredAt(ls, store) == { k \in 0..(Len(ls) - 1) : Suffix(ls, k) \in DOMAIN store }

WritesName ==
    /\ pc = "encode"
    /\ pc' = "encode"
    /\ Len(res') > Len(res)

Bit(b, weight) == IF b THEN weight ELSE 0

C11_HeaderBytes ==
    (pc \in { "encode", "panic", "enc_done" } /\ OpCodeToU8(response.opcode) \in 0..15) =>
        /\ Len(res) >= 12
        /\ res[1] * 256 + res[2] = response.id
        /\ res[3] = 128 + 8 * OpCodeToU8(response.opcode)
                        + Bit(response.authoritative_answer, 4)
                        + Bit(response.truncation, 2)
                        + Bit(response.recursion_desired, 1)
        /\ res[4] = Bit(response.recursion_available, 128)
                        + ResponseCodeToU8(response.response_code)
        /\ ResponseCodeToU8(response.response_code) < 16
        /\ res[5] * 256 + res[6] = Len(response.questions)
        /\ res[7] * 256 + res[8] = Len(response.answers)
        /\ SubSeq(res, 9, 12) = <<0, 0, 0, 0>>

\* opcode 15 with every flag set and the response code Reserved, encoded
C11_Witness ==
    /\ pc = "enc_done"
    /\ OpCodeToU8(response.opcode) = 15
    /\ response.authoritative_answer
    /\ response.truncation
    /\ response.recursion_desired
    /\ response.recursion_available
    /\ response.response_code = "Reserved"
    /\ SubSeq(res, 1, 8) = <<253, 240, 255, 134, 0, 1, 0, 1>>

(***************************************************************************)
(* C12.  Record::from_ip_v4 returns a record only for a text of exactly    *)
(* four period-separated components that each parse as an integer 0..255,  *)
(* and the record is then A/IN with those four bytes in order; a text with *)
(* a component that does not parse, or with a number of components other   *)
(* than four, fails.                                                       *)
(***************************************************************************)
Periods(s) == Cardinality({ i \in 1..Len(s) : s[i] = "." })

AllComponentsParse(s) == \A i \in 1..Len(Split(s)) : ParseU8(Split(s)[i]).kind = "ok"

C12_FromIpV4FourComponents ==
    pc = "record" =>
        IF Periods(source) = 3 /\ AllComponentsParse(source)
        THEN /\ record.kind = "ok"
             /\ record.record.rrtype = "A"
             /\ record.record.rrclass = "IN"
             /\ record.record.data = [i \in 1..4 |-> ParseU8(Split(source)[i]).val]
        ELSE record.kind = "err"

\* the same with any number of components
C12_FromIpV4AnyCount ==
    pc = "record" =>
        IF AllComponentsParse(source)
        THEN /\ record.kind = "ok"
             /\ record.record.rrtype = "A"
             /\ record.record.rrclass = "IN"
             /\ Len(record.record.data) = Periods(source) + 1
             /\ \A i \in 1..Len(record.record.data) :
                    record.record.data[i] = ParseU8(Split(source)[i]).val
        ELSE record.kind = "err"

\* 1.255.1.255 gives the four bytes
C12_WitnessFour ==
    /\ pc = "record"
    /\ source = << "1", ".", "2", "5", "5", ".", "1", ".", "2", "5", "5" >>
    /\ record = [kind |-> "ok", record |-> Record("A", "IN", <<1, 255, 1, 255>>), err |-> ""]

(***************************************************************************)
(* C13.  Question::try_from returns a Question exactly when a name can be  *)
(* read at the start of the slice, at least 4 bytes follow it, the 2 bytes *)
(* after the name are a type in 1..16 or 252..255 and the next 2 bytes a   *)
(* class in 1..4 or 255; the Question has that type, that class and the    *)
(* labels read, and written back it is, when its name carries no pointer,  *)
(* the bytes that were consumed.                                           *)
(***************************************************************************)
C13_QuestionDecode ==
    pc = "question_done" =>
        LET n == WireNameAt(value, 0)
            t == U16FromBe(At(value, n.next), At(value, n.next + 1))
            c == U16FromBe(At(value, n.next + 2), At(value, n.next + 3))
            q == question_res.question
        IN  /\ question_res.kind \in { "ok", "err" }
            /\ question_res.kind = "ok" <=>
                  /\ n.ok
                  /\ n.next + 4 <= Len(value)
                  /\ t \in (1..16) \cup (252..255)
                  /\ c \in (1..4) \cup { 255 }
            /\ question_res.kind = "ok" =>
                  /\ QTypeToU16(q.qtype) = t
                  /\ QClassToU16(q.qclass) = c
                  /\ q.qname.labels = n.labels
                  /\ (q.qname.pointer = None) = (n.pointer = None)
                  /\ q.qname.pointer = None => QuestionToVec(q) = Prefix(value, n.next + 4)

\* a.bc A IN decoded from a buffer that goes on after the question
C13_Witness ==
    /\ pc = "question_done"
    /\ question_res.kind = "ok"
    /\ question_res.question.qname = NameFrom(Chain(2))
    /\ QTypeToU16(question_res.question.qtype) = 1
    /\ QClassToU16(question_res.question.qclass) = 1
    /\ Len(value) = QuestionLen(question_res.question) + 2

\* a pointer-terminated name followed by three bytes
C13_WitnessTruncated ==
    /\ pc = "question_done"
    /\ value = <<192, 12, 0, 1, 0>>
    /\ question_res.kind = "err"
    /\ question_res.err = "truncated question"

(***************************************************************************)
(* C14.  Name::try_from returns a Name only for a buffer that starts with  *)
(* a well-formed name, reads no index outside the buffer, and fails on     *)
(* every other buffer: one with a length byte in 64..191, with a label     *)
(* that reaches or passes the end, or that ends before a root label or a   *)
(* pointer.                                                                *)
(***************************************************************************)
C14_NeverReturnsCorrupt ==
    /\ (pc = "name_done" /\ name_res.kind = "ok") =>
          /\ WireNameAt(value, 0).ok
          /\ name_res.name.labels = WireNameAt(value, 0).labels
    /\ (pc = "name" /\ last_pos < Len(value)) =>
          NameIterReads(value, last_pos) \subseteq 0..(Len(value) - 1)

C14_CorruptNameFails ==
    /\ []C14_NeverReturnsCorrupt
    /\ (~WireNameAt(value, 0).ok) ~> (pc = "name_done" /\ name_res.kind = "err")

\* a label that reaches the end of the buffer exactly is refused
C14_WitnessLabelAtEnd ==
    /\ pc = "name_done"
    /\ value = <<1, 97>>
    /\ name_res = Err("truncated label")

(***************************************************************************)
(* C15.  Every question of a Query that Query::try_from returns has a name *)
(* without a pointer, and while the server encodes the Response built from *)
(* it Name::compress is never given a name with a pointer: the unwrap on   *)
(* compress does not fail.                                                 *)
(***************************************************************************)
C15_CompressNeverFails ==
    /\ \A i \in 1..Len(query.questions) : query.questions[i].qname.pointer = None
    /\ pc \in { "enc_header", "encode", "enc_done" } =>
          /\ \A i \in 1..Len(response.questions) : response.questions[i].qname.pointer = None
          /\ \A i \in 1..Len(response.answers) : response.answers[i].name.pointer = None
          /\ Len(response.answers) = Len(response.questions)
    /\ pc # "panic"

\* a datagram whose second question ends in a pointer, answered and encoded
C15_Witness ==
    /\ pc = "enc_done"
    /\ qi = 2
    /\ ai = 2
    /\ Len(WireQuestions(value, 12, 2)) = 2
    /\ WireQuestions(value, 12, 2)[2].name.pointer # None

(***************************************************************************)
(* C16.  While a Response is encoded the cursor is the number of bytes     *)
(* written, a name read in the output at the offset of a dictionary entry  *)
(* (labels, then pointers followed) is the suffix of the entry, and each   *)
(* pointer written targets an offset below its own position at which the   *)
(* suffix it stands for is read.                                           *)
(***************************************************************************)
C16_CursorAndEntries ==
    pc \in { "encode", "enc_done" } =>
        /\ enc_ptr = Len(res)
        /\ \A key \in DOMAIN enc_ref_store :
              /\ enc_ref_store[key] >= HeaderLen
              /\ enc_ref_store[key] < Len(res)
              /\ WireFullName(res, enc_ref_store[key]) = key

PointerWrittenIsRight ==
    WritesName =>
        LET ls == NameToWrite.labels
            w == WireNameAt(res', Len(res))
        IN  /\ w.ok
            /\ w.pointer # None =>
                  /\ w.pointer[1] < w.next - 2
                  /\ WireFullName(res', w.pointer[1]) = Suffix(ls, Len(w.labels))

C16_CursorEntriesPointers ==
    /\ []C16_CursorAndEntries
    /\ [][PointerWrittenIsRight]_vars

\* the same for the output below offset 16384
C16_PointersBelow16384 ==
    [][Len(res') <= 16384 => PointerWrittenIsRight]_vars

\* bc.a.bc written after a.bc: a label, then a pointer to offset 12
C16_Witness ==
    /\ pc = "encode"
    /\ qi = 2
    /\ response.questions[1].qname.labels = Chain(2)
    /\ response.questions[2].qname.labels = Chain(3)
    /\ enc_ref_store[Chain(3)] = 22
    /\ SubSeq(res, 23, 27) = <<2, 98, 99, 192, 12>>
    /\ enc_ptr = 31

=============================================================================
